---- MODULE Spec2Model ----
(***************************************************************************)
(* State-machine model of WeatherProject_Done.py: a straight-line script   *)
(* that resolves random coordinates to city names, fetches one weather     *)
(* report per unique city, maps each report to a nine-field row, writes    *)
(* the table to output_data/cities.csv, reads the file back and draws four *)
(* scatter plots.                                                          *)
(*                                                                         *)
(* Floating-point values (lat, lon, temp_max, wind speed) are carried as   *)
(* integers in hundredths: -16.92 is -1692.                                *)
(***************************************************************************)
EXTENDS Integers, Sequences, FiniteSets, TLC

\* ------------------------------------------------------------------ bounds

\* Number of (lat, lng) pairs the sampler draws (size=1500 in the script).
MaxPairs == 3

\* ------------------------------------------------------- the outside world

\* Coordinate pairs the sampler may draw, in whole degrees, all inside
\* lat_range x lng_range.
Coords == { <<-17, 146>>, <<-16, 145>>, <<-23, 17>>, <<-53, -71>> }

\* citipy.nearest_city(lat, lng).city_name: the gazetteer's lower-case name.
\* Two of the coordinate pairs resolve to the same city.
nearest_city(lat_lng) ==
    CASE lat_lng = <<-17, 146>> -> "cairns"
      [] lat_lng = <<-16, 145>> -> "cairns"
      [] lat_lng = <<-23, 17>>  -> "windhoek"
      [] lat_lng = <<-53, -71>> -> "punta arenas"

CityNames == { nearest_city(c) : c \in Coords }

\* What the weather service knows about each city: the body it returns on
\* success (only the keys the script reads are kept). The first is the sample
\* response quoted in the script's header.
WeatherOf(city) ==
    CASE city = "cairns" ->
           [ name   |-> "Cairns",
             clouds |-> [ all |-> 75 ],
             sys    |-> [ country |-> "AU" ],
             dt     |-> 1435658272,
             main   |-> [ humidity |-> 83, temp_max |-> 29537 ],
             coord  |-> [ lat |-> -1692, lon |-> 14577 ],
             wind   |-> [ speed |-> 510 ] ]
      [] city = "windhoek" ->
           [ name   |-> "Windhoek",
             clouds |-> [ all |-> 0 ],
             sys    |-> [ country |-> "NA" ],
             dt     |-> 1435658300,
             main   |-> [ humidity |-> 20, temp_max |-> 29815 ],
             coord  |-> [ lat |-> -2256, lon |-> 1708 ],
             wind   |-> [ speed |-> 360 ] ]
      [] city = "punta arenas" ->
           [ name   |-> "Punta Arenas",
             clouds |-> [ all |-> 90 ],
             sys    |-> [ country |-> "CL" ],
             dt     |-> 1435658350,
             main   |-> [ humidity |-> 87, temp_max |-> 27615 ],
             coord  |-> [ lat |-> -5315, lon |-> -7092 ],
             wind   |-> [ speed |-> 1030 ] ]

\* A JSON object without one of its keys.
Without(obj, key) == [ k \in (DOMAIN obj) \ {key} |-> obj[k] ]

\* A JSON object without the key at a path of length one or two.
WithoutPath(obj, path) ==
    IF Len(path) = 1
    THEN Without(obj, path[1])
    ELSE [ k \in DOMAIN obj |->
             IF k = path[1] THEN Without(obj[k], path[2]) ELSE obj[k] ]

\* The nine paths the script reads.
ReadPaths ==
    { <<"name">>, <<"clouds", "all">>, <<"sys", "country">>, <<"dt">>,
      <<"main", "humidity">>, <<"coord", "lat">>, <<"coord", "lon">>,
      <<"main", "temp_max">>, <<"wind", "speed">> }

\* What a body may lack: any one of the nine values, or a whole section.
DroppedPaths ==
    ReadPaths \cup { <<"clouds">>, <<"sys">>, <<"main">>, <<"coord">>, <<"wind">> }

\* Status codes the service answers with besides 200.
ErrorStatuses == { 404, 500 }

\* Everything requests.get(url) can do for a city: raise (no response at all),
\* or return a response with a status code and a body. The body of a 200
\* response is a JSON object (complete, or lacking something the script
\* reads), the JSON literal null, or text that is not JSON.
NoBody == [ k \in {} |-> 0 ]

HttpOutcomes(city) ==
    { [ raised |-> TRUE, status_code |-> 0, text |-> "none", obj |-> NoBody ] }
    \cup { [ raised |-> FALSE, status_code |-> s, text |-> "object", obj |-> NoBody ]
           : s \in ErrorStatuses }
    \cup { [ raised |-> FALSE, status_code |-> 200, text |-> t, obj |-> NoBody ]
           : t \in { "null", "garbage" } }
    \cup { [ raised |-> FALSE, status_code |-> 200, text |-> "object",
             obj |-> WeatherOf(city) ] }
    \cup { [ raised |-> FALSE, status_code |-> 200, text |-> "object",
             obj |-> WithoutPath(WeatherOf(city), p) ] : p \in DroppedPaths }

\* ------------------------------------------------------------------- state

VARIABLES
    lat_lngs,    \* the pairs the zip iterator has yet to yield (line 78)
    k,           \* how many pairs the resolution loop has consumed
    cities,      \* the deduplicated city list (line 73)
    idx,         \* how many cities the fetch loop has processed
    http_log,    \* one entry per requests.get call: the query and what came back
    responses,   \* parsed bodies of the successful fetches (line 116)
    m,           \* how many responses the mapping loop has processed
    df,          \* the in-memory table (line 135)
    file,        \* output_data/cities.csv
    writes,      \* how many times the file has been written
    df2,         \* the table read back from the file (line 198)
    plots,       \* the scatter plots drawn so far
    fault,       \* the unhandled exception that ended the run, or "none"
    pc,          \* the script's position
    pandas_refuses_empty_scatter
                 \* whether the installed pandas refuses to scatter-plot a
                 \* table without rows (fixed for the whole run)

vars == << lat_lngs, k, cities, idx, http_log, responses, m, df, file, writes,
           df2, plots, fault, pc, pandas_refuses_empty_scatter >>

Range(s) == { s[i] : i \in DOMAIN s }

\* ------------------------------------------------------------ city resolver

\* The loop without its uniqueness test.
add_city_unchecked(seen, city) == Append(seen, city)

\* Lines 85-86: append the city unless it is already in the list.
add_city(seen, city) ==
    IF city \notin Range(seen) THEN Append(seen, city) ELSE seen

\* ----------------------------------------------------------- weather fetcher

\* Line 101: city_name.replace(" ", "+") on the names of the gazetteer.
encoded_city_name(city_name) ==
    CASE city_name = "punta arenas" -> "punta+arenas"
      [] OTHER -> city_name

\* get_city_data with a status check that raises instead of returning None.
get_city_data_raising(city_name, response) ==
    IF response.raised
    THEN [ exc |-> "network", none |-> FALSE, value |-> NoBody ]
    ELSE IF response.status_code # 200
    THEN [ exc |-> "http", none |-> FALSE, value |-> NoBody ]
    ELSE IF response.text = "garbage"
    THEN [ exc |-> "json", none |-> FALSE, value |-> NoBody ]
    ELSE IF response.text = "null"
    THEN [ exc |-> "none", none |-> TRUE, value |-> NoBody ]
    ELSE [ exc |-> "none", none |-> FALSE, value |-> response.obj ]

\* get_city_data with the parse wrapped in a handler that returns None.
get_city_data_lenient(city_name, response) ==
    IF response.raised
    THEN [ exc |-> "network", none |-> FALSE, value |-> NoBody ]
    ELSE IF response.status_code # 200
    THEN [ exc |-> "none", none |-> TRUE, value |-> NoBody ]
    ELSE IF response.text \in { "garbage", "null" }
    THEN [ exc |-> "none", none |-> TRUE, value |-> NoBody ]
    ELSE [ exc |-> "none", none |-> FALSE, value |-> response.obj ]

\* Lines 100-107, given what requests.get did. exc is the exception that
\* escapes ("none" when the call returns); none says the call returned None;
\* value is the parsed body otherwise. response.json() raises on text that is
\* not JSON and returns None for the JSON literal null.
get_city_data(city_name, response) ==
    IF response.raised
    THEN [ exc |-> "network", none |-> FALSE, value |-> NoBody ]
    ELSE IF response.status_code # 200
    THEN [ exc |-> "none", none |-> TRUE, value |-> NoBody ]
    ELSE IF response.text = "garbage"
    THEN [ exc |-> "json", none |-> FALSE, value |-> NoBody ]
    ELSE IF response.text = "null"
    THEN [ exc |-> "none", none |-> TRUE, value |-> NoBody ]
    ELSE [ exc |-> "none", none |-> FALSE, value |-> response.obj ]

\* --------------------------------------------------------------- row mapper

Columns ==
    << "City", "Cloudiness", "Country", "Date", "Humidity", "Lat", "Lng",
       "Max Temp", "Wind Speed" >>

Has(obj, key) == key \in DOMAIN obj

Has2(obj, key, sub) == Has(obj, key) /\ Has(obj[key], sub)

\* The value at a path of length one or two.
At(obj, path) == IF Len(path) = 1 THEN obj[path[1]] ELSE obj[path[1]][path[2]]

InObj(obj, path) ==
    IF Len(path) = 1
    THEN Has(obj, path[1])
    ELSE Has2(obj, path[1], path[2])

ColumnPath(column) ==
    CASE column = "City"       -> << "name" >>
      [] column = "Cloudiness" -> << "clouds", "all" >>
      [] column = "Country"    -> << "sys", "country" >>
      [] column = "Date"       -> << "dt" >>
      [] column = "Humidity"   -> << "main", "humidity" >>
      [] column = "Lat"        -> << "coord", "lat" >>
      [] column = "Lng"        -> << "coord", "lon" >>
      [] column = "Max Temp"   -> << "main", "temp_max" >>
      [] column = "Wind Speed" -> << "wind", "speed" >>

\* The mapper reading with defaults: it keeps the fields it finds.
get_row_tolerant(response) ==
    [ raised |-> FALSE,
      row |-> [ c \in { c \in Range(Columns) : InObj(response, ColumnPath(c)) }
                  |-> At(response, ColumnPath(c)) ] ]

\* The mapper with latitude and longitude exchanged.
get_row_swapped(response) ==
    IF \A c \in Range(Columns) : InObj(response, ColumnPath(c))
    THEN [ raised |-> FALSE,
           row |-> [ c \in Range(Columns) |->
                       IF c = "Lat" THEN response.coord.lon
                       ELSE IF c = "Lng" THEN response.coord.lat
                       ELSE At(response, ColumnPath(c)) ] ]
    ELSE [ raised |-> TRUE, row |-> NoBody ]

\* Lines 139-154. Each subscript raises KeyError when the key is absent, so a
\* row is built only when all nine reads succeed.
get_row_from_response(response) ==
    IF /\ Has(response, "name")
       /\ Has2(response, "clouds", "all")
       /\ Has2(response, "sys", "country")
       /\ Has(response, "dt")
       /\ Has2(response, "main", "humidity")
       /\ Has2(response, "coord", "lat")
       /\ Has2(response, "coord", "lon")
       /\ Has2(response, "main", "temp_max")
       /\ Has2(response, "wind", "speed")
    THEN [ raised |-> FALSE,
           row |-> ("City" :> response.name)
                @@ ("Cloudiness" :> response.clouds.all)
                @@ ("Country" :> response.sys.country)
                @@ ("Date" :> response.dt)
                @@ ("Humidity" :> response.main.humidity)
                @@ ("Lat" :> response.coord.lat)
                @@ ("Lng" :> response.coord.lon)
                @@ ("Max Temp" :> response.main.temp_max)
                @@ ("Wind Speed" :> response.wind.speed) ]
    ELSE [ raised |-> TRUE, row |-> NoBody ]

\* ------------------------------------------------------------------- tables

\* A DataFrame: its column labels and its rows, each row a function from the
\* column labels to values.
EmptyFrame(columns) == [ columns |-> columns, rows |-> << >> ]

\* An append that puts the new row first.
df_prepend(frame, row) == [ frame EXCEPT !.rows = << row >> \o @ ]

\* Line 160: df.append(row, ignore_index=True) adds the row at the end.
df_append(frame, row) == [ frame EXCEPT !.rows = Append(@, row) ]

\* Columns holding JSON strings; the others hold JSON numbers.
TextColumns == { "City", "Country" }

\* The text the CSV writer puts in a cell: a string as it is, a number as its
\* decimal numeral.
FormatCell(column, value) ==
    IF column \in TextColumns THEN value ELSE ToString(value)

NoFile == [ exists |-> FALSE, header |-> << >>, lines |-> << >> ]

\* Line 173: df.to_csv(path). The header line starts with an empty label for
\* the row index; each data line starts with the row's index, counted from 0.
to_csv(frame) ==
    [ exists |-> TRUE,
      header |-> << "" >> \o frame.columns,
      lines  |-> [ i \in 1..Len(frame.rows) |->
                     << ToString(i - 1) >> \o
                     [ j \in 1..Len(frame.columns) |->
                         FormatCell(frame.columns[j],
                                    frame.rows[i][frame.columns[j]]) ] ] ]

\* The cell texts pandas.read_csv takes for a missing value by default.
NAValues ==
    { "", "#N/A", "#N/A N/A", "#NA", "-1.#IND", "-1.#QNAN", "-NaN", "-nan",
      "1.#IND", "1.#QNAN", "<NA>", "N/A", "NA", "NULL", "NaN", "n/a", "nan",
      "null" }

\* The missing-value marker of a table that was read back (a float NaN); a
\* token no cell text is equal to.
NaN == "<float nan>"

\* Every number a cell of the file can hold.
LeafNumbers(city) ==
    LET w == WeatherOf(city)
    IN  { w.clouds.all, w.dt, w.main.humidity, w.main.temp_max,
          w.coord.lat, w.coord.lon, w.wind.speed }

Numbers == (0..(MaxPairs + 1)) \cup UNION { LeafNumbers(c) : c \in CityNames }

IsNumeral(text) == \E n \in Numbers : ToString(n) = text

ParseNumeral(text) == CHOOSE n \in Numbers : ToString(n) = text

\* Line 198: pd.read_csv(path, sep=","). An empty header label becomes
\* "Unnamed: 0". A cell whose text is a missing-value text is read as NaN; a
\* column whose other cells are all numerals is numeric, any other column
\* keeps its texts.
read_csv(f) ==
    LET names == [ j \in 1..Len(f.header) |->
                     IF f.header[j] = "" THEN "Unnamed: 0" ELSE f.header[j] ]
        numeric(j) == \A i \in 1..Len(f.lines) :
                         f.lines[i][j] \in NAValues \/ IsNumeral(f.lines[i][j])
        cell(i, j) == IF f.lines[i][j] \in NAValues THEN NaN
                      ELSE IF numeric(j) THEN ParseNumeral(f.lines[i][j])
                      ELSE f.lines[i][j]
        at(c) == CHOOSE j \in 1..Len(names) : names[j] = c
    IN  [ columns |-> names,
          rows    |-> [ i \in 1..Len(f.lines) |->
                          [ c \in Range(names) |-> cell(i, at(c)) ] ] ]

\* ------------------------------------------------------------------ plotter

\* The y column of each of the four plots, in script order (lines 199, 209,
\* 219, 229); x is "Lat" in all four.
PlotY == << "Max Temp", "Humidity", "Cloudiness", "Wind Speed" >>

\* frame.plot.scatter(x, y): a missing column raises KeyError. On a table
\* with no rows the outcome depends on the installed pandas release: the
\* releases up to 1.1 refuse ("scatter requires x column to be numeric"),
\* later ones draw empty axes.
scatter(frame, x, y, refuses_empty) ==
    IF x \notin Range(frame.columns) \/ y \notin Range(frame.columns)
    THEN "KeyError"
    ELSE IF Len(frame.rows) = 0 /\ refuses_empty
    THEN "ValueError"
    ELSE "drawn"

Points(frame, x, y) == [ i \in 1..Len(frame.rows) |-> << frame.rows[i][x], frame.rows[i][y] >> ]

\* ------------------------------------------------------------------ actions

NoFrame == EmptyFrame(<< >>)

\* Lines 72-78: the sampler has drawn its pairs; nothing else has run.
Init ==
    /\ lat_lngs \in [ 1..MaxPairs -> Coords ]
    /\ k = 0
    /\ cities = << >>
    /\ idx = 0
    /\ http_log = << >>
    /\ responses = << >>
    /\ m = 0
    /\ df = NoFrame
    /\ file = NoFile
    /\ writes = 0
    /\ df2 = NoFrame
    /\ plots = << >>
    /\ fault = "none"
    /\ pc = "resolve"
    /\ pandas_refuses_empty_scatter \in BOOLEAN

\* An unhandled exception ends the run where it is raised.
Crash(exception) ==
    /\ fault' = exception
    /\ pc' = "crashed"

\* Lines 81-86: one iteration of the city-resolution loop.
ResolveCity ==
    /\ pc = "resolve"
    /\ lat_lngs # << >>
    /\ lat_lngs' = Tail(lat_lngs)
    /\ k' = k + 1
    /\ cities' = add_city(cities, nearest_city(Head(lat_lngs)))
    /\ UNCHANGED << idx, http_log, responses, m, df, file, writes,
                    df2, plots, fault, pc,
                    pandas_refuses_empty_scatter >>

\* Line 82: the resolver raises.
ResolverFails ==
    /\ pc = "resolve"
    /\ lat_lngs # << >>
    /\ Crash("resolver")
    /\ UNCHANGED << lat_lngs, k, cities, idx, http_log, responses, m, df, file,
                    writes, df2, plots,
                    pandas_refuses_empty_scatter >>

\* Lines 81, 116: the pairs are exhausted; the fetch loop starts with an
\* empty responses list.
EndResolve ==
    /\ pc = "resolve"
    /\ lat_lngs = << >>
    /\ responses' = << >>
    /\ pc' = "fetch"
    /\ UNCHANGED << lat_lngs, k, cities, idx, http_log, m, df, file, writes,
                    df2, plots, fault,
                    pandas_refuses_empty_scatter >>

\* Lines 117-123: one iteration of the fetch loop, for whatever the service
\* does with the request.
FetchCity ==
    /\ pc = "fetch"
    /\ idx < Len(cities)
    /\ \E response \in HttpOutcomes(cities[idx + 1]) :
         LET city   == cities[idx + 1]
             result == get_city_data(city, response)
         IN  /\ http_log' = Append(http_log,
                                   [ q |-> encoded_city_name(city),
                                     response |-> response ])
             /\ IF result.exc # "none"
                THEN /\ Crash(result.exc)
                     /\ UNCHANGED << idx, responses >>
                ELSE /\ idx' = idx + 1
                     /\ responses' = IF result.none
                                     THEN responses
                                     ELSE Append(responses, result.value)
                     /\ UNCHANGED << fault, pc >>
    /\ UNCHANGED << lat_lngs, k, cities, m, df, file, writes, df2, plots,
                    pandas_refuses_empty_scatter >>

\* Lines 117, 135-137: the cities are exhausted; the empty table is created.
EndFetch ==
    /\ pc = "fetch"
    /\ idx = Len(cities)
    /\ df' = EmptyFrame(Columns)
    /\ pc' = "map"
    /\ UNCHANGED << lat_lngs, k, cities, idx, http_log, responses, m, file,
                    writes, df2, plots, fault,
                    pandas_refuses_empty_scatter >>

\* The mapping loop with the export inside its body.
MapResponseAndExport ==
    /\ pc = "map"
    /\ m < Len(responses)
    /\ LET got == get_row_from_response(responses[m + 1])
       IN  IF got.raised
           THEN /\ Crash("key")
                /\ UNCHANGED << m, df, file, writes >>
           ELSE /\ df' = df_append(df, got.row)
                /\ m' = m + 1
                /\ file' = to_csv(df')
                /\ writes' = writes + 1
                /\ UNCHANGED << fault, pc >>
    /\ UNCHANGED << lat_lngs, k, cities, idx, http_log, responses, df2, plots,
                    pandas_refuses_empty_scatter >>

\* Lines 159-160: one iteration of the mapping loop.
MapResponse ==
    /\ pc = "map"
    /\ m < Len(responses)
    /\ LET got == get_row_from_response(responses[m + 1])
       IN  IF got.raised
           THEN /\ Crash("key")
                /\ UNCHANGED << m, df >>
           ELSE /\ df' = df_append(df, got.row)
                /\ m' = m + 1
                /\ UNCHANGED << fault, pc >>
    /\ UNCHANGED << lat_lngs, k, cities, idx, http_log, responses, file,
                    writes, df2, plots,
                    pandas_refuses_empty_scatter >>

\* Line 159: the responses are exhausted.
EndMap ==
    /\ pc = "map"
    /\ m = Len(responses)
    /\ pc' = "export"
    /\ UNCHANGED << lat_lngs, k, cities, idx, http_log, responses, m, df, file,
                    writes, df2, plots, fault,
                    pandas_refuses_empty_scatter >>

\* Line 173: the table is written to the file.
ExportCsv ==
    /\ pc = "export"
    /\ file' = to_csv(df)
    /\ writes' = writes + 1
    /\ pc' = "read"
    /\ UNCHANGED << lat_lngs, k, cities, idx, http_log, responses, m, df, df2,
                    plots, fault,
                    pandas_refuses_empty_scatter >>

\* Line 198: the file is read back into df2.
ReadCsv ==
    /\ pc = "read"
    /\ df2' = read_csv(file)
    /\ pc' = "plot"
    /\ UNCHANGED << lat_lngs, k, cities, idx, http_log, responses, m, df, file,
                    writes, plots, fault,
                    pandas_refuses_empty_scatter >>

\* Lines 199-201, 209-211, 219-221, 229-231: the next scatter plot, of df2.
PlotNext ==
    /\ pc = "plot"
    /\ Len(plots) < Len(PlotY)
    /\ LET y       == PlotY[Len(plots) + 1]
           outcome == scatter(df2, "Lat", y, pandas_refuses_empty_scatter)
       IN  IF outcome = "drawn"
           THEN /\ plots' = Append(plots,
                                   [ frame |-> "df2", x |-> "Lat", y |-> y,
                                     points |-> Points(df2, "Lat", y) ])
                /\ UNCHANGED << fault, pc >>
           ELSE /\ Crash(outcome)
                /\ UNCHANGED plots
    /\ UNCHANGED << lat_lngs, k, cities, idx, http_log, responses, m, df, file,
                    writes, df2,
                    pandas_refuses_empty_scatter >>

\* Line 231: the last plot has been shown; the script ends.
Finish ==
    /\ pc = "plot"
    /\ Len(plots) = Len(PlotY)
    /\ pc' = "done"
    /\ UNCHANGED << lat_lngs, k, cities, idx, http_log, responses, m, df, file,
                    writes, df2, plots, fault,
                    pandas_refuses_empty_scatter >>

Next ==
    \/ ResolveCity
    \/ ResolverFails
    \/ EndResolve
    \/ FetchCity
    \/ EndFetch
    \/ MapResponse
    \/ EndMap
    \/ ExportCsv
    \/ ReadCsv
    \/ PlotNext
    \/ Finish

Spec == Init /\ [][Next]_vars

\* A sequential script always executes its next statement.
FairSpec == Spec /\ WF_vars(Next)

\* ------------------------------------------------------- shared vocabulary

\* Positions after the mapping loop has ended normally.
AfterMap == { "export", "read", "plot", "done" }

\* The service answered the request of a log entry with status 200.
Status200(entry) ==
    ~entry.response.raised /\ entry.response.status_code = 200

\* The service answered with a status other than 200.
StatusNot200(entry) ==
    ~entry.response.raised /\ entry.response.status_code # 200

\* The service answered 200 with a JSON object as body.
Answered200Object(entry) ==
    Status200(entry) /\ entry.response.text = "object"

PathIn(obj, path) ==
    IF Len(path) = 1
    THEN path[1] \in DOMAIN obj
    ELSE path[1] \in DOMAIN obj /\ path[2] \in DOMAIN obj[path[1]]

\* The body holds everything the script reads.
Complete(obj) == \A p \in ReadPaths : PathIn(obj, p)

\* -------------------------------------------------------------------- C1

\* C1 (as stated): when the fetch and mapping phases have ended, the table has
\* as many rows as there were cities whose response status was 200.
C1_RowsEqualStatus200 ==
    pc \in AfterMap =>
        Len(df.rows) =
            Cardinality({ i \in DOMAIN http_log : Status200(http_log[i]) })

\* -------------------------------------------------------------------- C3

\* C3: the deduplicated city list never holds a city name twice, after every
\* iteration of the resolution loop and ever after.
C3_NoRepeatedCity ==
    \A i, j \in DOMAIN cities : i # j => cities[i] # cities[j]

\* A pair resolved to a city already in the list and was skipped.
C3_Witness ==
    /\ lat_lngs = << >>
    /\ k = MaxPairs
    /\ Len(cities) < k
    /\ Len(cities) >= 2

\* -------------------------------------------------------------------- C2

\* The requests made so far are those of the first cities of the list, one
\* each, in list order; the loop has moved past every response with a status
\* other than 200; once the fetch loop has ended every city has been
\* requested.
C2_RequestsFollowTheList ==
    /\ Len(http_log) <= Len(cities)
    /\ \A i \in DOMAIN http_log : http_log[i].q = encoded_city_name(cities[i])
    /\ fault = "none" /\ pc = "fetch" => Len(http_log) = idx
    /\ pc \in { "map" } \cup AfterMap => Len(http_log) = Len(cities)
    /\ \A i \in DOMAIN http_log : StatusNot200(http_log[i]) => i <= idx

\* C2: a response with a status other than 200 never halts the fetch loop:
\* every city of the deduplicated list is requested exactly once, in list
\* order, whatever the statuses, and a run that has entered the fetch loop
\* goes on to the mapping loop and the export unless an exception ends it.
C2_Non200NeverHalts ==
    /\ []C2_RequestsFollowTheList
    /\ (pc = "fetch") ~> (pc = "export" \/ fault # "none")

\* Three cities were requested, the first two answered 404 and 500, and the
\* run reached the export step.
C2_Witness ==
    /\ pc = "export"
    /\ Len(http_log) = 3
    /\ StatusNot200(http_log[1])
    /\ StatusNot200(http_log[2])
    /\ http_log[1].response.status_code # http_log[2].response.status_code
    /\ Answered200Object(http_log[3])

\* -------------------------------------------------------------------- C4

\* The record the spec gives for the sample Cairns response.
CairnsRecord ==
    ("City" :> "Cairns") @@ ("Cloudiness" :> 75) @@ ("Country" :> "AU")
    @@ ("Date" :> 1435658272) @@ ("Humidity" :> 83) @@ ("Lat" :> -1692)
    @@ ("Lng" :> 14577) @@ ("Max Temp" :> 29537) @@ ("Wind Speed" :> 510)

\* C4: every row of the table has exactly the nine fields, holding the
\* response's name, clouds.all, sys.country, dt, main.humidity, coord.lat,
\* coord.lon, main.temp_max and wind.speed; the Cairns response gives the
\* record of the spec.
C4_RowCopiesTheNineFields ==
    \A i \in 1..Len(df.rows) :
        LET response == responses[i]
            row      == df.rows[i]
        IN  /\ DOMAIN row = Range(Columns)
            /\ row["City"] = response.name
            /\ row["Cloudiness"] = response.clouds.all
            /\ row["Country"] = response.sys.country
            /\ row["Date"] = response.dt
            /\ row["Humidity"] = response.main.humidity
            /\ row["Lat"] = response.coord.lat
            /\ row["Lng"] = response.coord.lon
            /\ row["Max Temp"] = response.main.temp_max
            /\ row["Wind Speed"] = response.wind.speed
            /\ response = WeatherOf("cairns") => row = CairnsRecord

\* The Cairns response was mapped, after another one.
C4_Witness ==
    /\ Len(df.rows) = 2
    /\ responses[2] = WeatherOf("cairns")
    /\ df.rows[2] = CairnsRecord

\* -------------------------------------------------------------------- C5

\* C5: the table never holds a partial record: every row has all nine
\* fields, every response the mapping loop got past held all nine values,
\* and the mapping step that meets a response lacking one ends the run.
C5_NoPartialRecord ==
    /\ \A i \in 1..Len(df.rows) : DOMAIN df.rows[i] = Range(Columns)
    /\ Len(df.rows) = m
    /\ \A i \in 1..m : Complete(responses[i])
    /\ fault = "key" =>
           /\ pc = "crashed"
           /\ m < Len(responses)
           /\ ~Complete(responses[m + 1])

\* The mapping loop appended a row and then failed on an incomplete response.
C5_Witness ==
    /\ fault = "key"
    /\ Len(df.rows) = 1
    /\ ~PathIn(responses[2], << "coord", "lon" >>)

\* -------------------------------------------------------------------- C6

\* The log entries whose body was appended to responses, in fetch order.
Kept == SelectSeq(http_log, Answered200Object)

\* C6: the rows of the table are the successful responses in the order they
\* were fetched, skipped cities left out; so of two cities with a row each,
\* the one earlier in the city list has the earlier row.
C6_TablePreservesFetchOrder ==
    /\ Len(df.rows) <= Len(Kept)
    /\ \A i \in 1..Len(df.rows) :
           /\ df.rows[i]["City"] = Kept[i].response.obj.name
           /\ df.rows[i]["Date"] = Kept[i].response.obj.dt
    /\ pc \in AfterMap => Len(df.rows) = Len(Kept)
    /\ \A a, b \in DOMAIN http_log : \A i, j \in 1..Len(df.rows) :
           /\ a < b
           /\ Answered200Object(http_log[a])
           /\ Answered200Object(http_log[b])
           /\ Complete(http_log[a].response.obj)
           /\ Complete(http_log[b].response.obj)
           /\ df.rows[i]["City"] = http_log[a].response.obj.name
           /\ df.rows[j]["City"] = http_log[b].response.obj.name
           => i < j

\* Three cities were fetched, the middle one was skipped, and the other two
\* have their rows.
C6_Witness ==
    /\ pc = "export"
    /\ Len(http_log) = 3
    /\ StatusNot200(http_log[2])
    /\ Len(df.rows) = 2

\* -------------------------------------------------------------------- C7

\* C7 (as stated): the table read back from the file has the rows of the
\* table that was written, in the same order, with the same values in the
\* nine fields.
C7_CsvRoundTrip ==
    pc \in { "plot", "done" } =>
        /\ Len(df2.rows) = Len(df.rows)
        /\ \A i \in 1..Len(df.rows) : \A c \in Range(Columns) :
               df2.rows[i][c] = df.rows[i][c]

\* -------------------------------------------------------------------- C8

\* The fetch loop ended without a single successful fetch.
ZeroSuccessfulFetches ==
    /\ pc \notin { "resolve", "fetch" }
    /\ lat_lngs = << >>
    /\ idx = Len(cities)
    /\ Len(responses) = 0

\* C8 (as stated): with zero successful fetches the run still exports, the
\* file holds the header row alone, and the four plots of the empty table
\* that is read back complete without raising.
C8_EmptyDatasetRunsToTheEnd ==
    ZeroSuccessfulFetches =>
        /\ fault = "none"
        /\ file.exists => file.header = << "" >> \o Columns /\ file.lines = << >>
        /\ pc \in { "plot", "done" } => Len(df2.rows) = 0

\* -------------------------------------------------------------------- C9

\* C9: a network error or a body that is not JSON during a fetch, a missing
\* field during mapping and a resolver failure each end the run at that
\* point: nothing runs afterwards, so no later city is requested, and the
\* file is never written in that run.
C9_OtherFailuresAreFatal ==
    /\ pc = "crashed" <=> fault # "none"
    /\ pc = "crashed" => ~ENABLED Next
    /\ \A i \in DOMAIN http_log :
           LET r == http_log[i].response
           IN  /\ r.raised => i = Len(http_log) /\ fault = "network"
               /\ Status200(http_log[i]) /\ r.text = "garbage" =>
                      i = Len(http_log) /\ fault = "json"
    /\ \A i \in 1..Len(responses) :
           ~Complete(responses[i]) => m < i /\ pc \notin AfterMap
    /\ pc = "map" /\ m = Len(responses) => \A i \in 1..m : Complete(responses[i])
    /\ fault = "resolver" => http_log = << >>
    /\ fault \in { "resolver", "network", "json", "key" } =>
           /\ writes = 0
           /\ ~file.exists
           /\ df2 = NoFrame
           /\ plots = << >>

\* The third fetch failed after two responses had been accumulated; they are
\* in no file.
C9_Witness ==
    /\ fault = "json"
    /\ Len(responses) = 2
    /\ ~file.exists

\* ------------------------------------------------------------------- C10

\* What holds at each position of the script.
C10_PhaseFacts ==
    /\ pc = "resolve" => idx = 0 /\ http_log = << >>
    /\ pc = "fetch" => lat_lngs = << >> /\ k = MaxPairs /\ m = 0 /\ df = NoFrame
    /\ pc = "map" => idx = Len(cities) /\ writes = 0
    /\ pc = "export" => m = Len(responses) /\ Len(df.rows) = m /\ writes = 0
    /\ pc = "read" => writes = 1 /\ df2 = NoFrame /\ plots = << >>
    /\ pc \in { "plot", "done" } => writes = 1
    /\ pc = "done" => Len(plots) = Len(PlotY)
    /\ writes <= 1
    /\ file.exists <=> writes = 1
    /\ file.exists => Len(file.lines) = Len(responses)
    /\ plots # << >> => writes = 1
    /\ \A i \in DOMAIN plots :
           /\ plots[i].frame = "df2"
           /\ plots[i].x = "Lat"
           /\ plots[i].y = PlotY[i]
           /\ Len(plots[i].points) = Len(file.lines)

\* C10: the phases run in the order resolve, fetch, map, write, read, plot:
\* the file is written once, after the last row was appended, and read only
\* after that; nothing is written and no table changes after the read; every
\* plot is of the table that was read back.
C10_PhasesInFixedOrder ==
    /\ []C10_PhaseFacts
    /\ [][ /\ writes' # writes => pc = "export" /\ pc' = "read"
           /\ df2' # df2 => pc = "read" /\ pc' = "plot"
           /\ pc \in { "read", "plot", "done" } => df' = df /\ file' = file
           /\ pc \in { "plot", "done" } => df2' = df2
           /\ plots' # plots => pc = "plot" /\ df2' = df2 ]_vars

\* A run that wrote two rows, read them back and drew all four plots.
C10_Witness ==
    /\ pc = "done"
    /\ Len(df.rows) = 2
    /\ Len(df2.rows) = 2
    /\ Len(plots) = 4

====
